---------------------------- MODULE Spec2Model ----------------------------
(***************************************************************************)
(* The German eTIN provider (faker/providers/ssn/de_DE/__init__.py).       *)
(*                                                                         *)
(* A Python str is modelled as a sequence of characters; a character is a  *)
(* one-character string, and a non-ASCII character is written by its code  *)
(* point ("U+00FC" is u with diaeresis, "U+0308" the combining diaeresis). *)
(* Every method of the provider is a pure function and is an operator      *)
(* here, computed statement by statement as the Python computes it; the    *)
(* state machine draws the arguments of one call and applies the method.   *)
(***************************************************************************)
EXTENDS Integers, Sequences, FiniteSets, TLC

VARIABLES call,        \* the method called
          pc,          \* "called", "returned", "KeyError" or "rechecked"
          name,        \* argument of _etin_name_quartet
          first_name,  \* argument of etin: <<>> is None, <<s>> the str s
          last_name,   \* argument of etin: <<>> is None, <<s>> the str s
          birthday,    \* argument of etin: <<>> is None, <<d>> the date d
          etin_stub,   \* argument of _etin_check_character
          prev,        \* stub and check character before a substitution
          subst,       \* number of substitutions made in etin_stub
          result,      \* the str returned (<<>> while none is)
          recheck      \* check character recomputed from a returned eTIN

vars == <<call, pc, name, first_name, last_name, birthday, etin_stub, prev,
          subst, result, recheck>>

----------------------------------------------------------------------------
(* Python built-ins and standard library, as far as the provider uses them *)

ascii_uppercase ==
  <<"A", "B", "C", "D", "E", "F", "G", "H", "I", "J", "K", "L", "M",
    "N", "O", "P", "Q", "R", "S", "T", "U", "V", "W", "X", "Y", "Z">>

ascii_lowercase ==
  <<"a", "b", "c", "d", "e", "f", "g", "h", "i", "j", "k", "l", "m",
    "n", "o", "p", "q", "r", "s", "t", "u", "v", "w", "x", "y", "z">>

digits == <<"0", "1", "2", "3", "4", "5", "6", "7", "8", "9">>

Range(s) == {s[i] : i \in DOMAIN s}

IndexOf(s, c) == CHOOSE i \in DOMAIN s : s[i] = c

\* "".join(parts)
RECURSIVE join(_)
join(parts) ==
  IF parts = <<>> THEN <<>> ELSE Head(parts) \o join(Tail(parts))

\* The compatibility decomposition (NFKD) of one character:
\*   U+00FC u-diaeresis, U+00D6 O-diaeresis, U+00E9 e-acute, U+015A S-acute
\*   decompose into the base letter and a combining mark; U+FB01 (ligature
\*   fi) into f, i; ASCII, U+00DF (sharp s) and U+0416 (Cyrillic Zhe) have
\*   no decomposition.
decomposition(ch) ==
  CASE ch = "U+00FC" -> <<"u", "U+0308">>
    [] ch = "U+00D6" -> <<"O", "U+0308">>
    [] ch = "U+00E9" -> <<"e", "U+0301">>
    [] ch = "U+015A" -> <<"S", "U+0301">>
    [] ch = "U+FB01" -> <<"f", "i">>
    [] OTHER -> <<ch>>

\* unicodedata.normalize("NFKD", s)
normalize_NFKD(s) == join([i \in DOMAIN s |-> decomposition(s[i])])

\* unicodedata.combining(ch): the canonical combining class, 0 for none
combining(ch) == IF ch \in {"U+0308", "U+0301"} THEN 230 ELSE 0

\* s.startswith(p)
startswith(s, p) == Len(s) >= Len(p) /\ SubSeq(s, 1, Len(p)) = p

\* s.replace(old, new) for a non-empty old: every non-overlapping
\* occurrence, leftmost first
RECURSIVE replace(_, _, _)
replace(s, old, new) ==
  IF s = <<>> THEN <<>>
  ELSE IF startswith(s, old)
       THEN new \o replace(SubSeq(s, Len(old) + 1, Len(s)), old, new)
       ELSE <<Head(s)>> \o replace(Tail(s), old, new)

\* ch.upper() of one character; sharp s becomes "SS"
upper_char(ch) ==
  IF ch \in Range(ascii_lowercase)
  THEN <<ascii_uppercase[IndexOf(ascii_lowercase, ch)]>>
  ELSE IF ch = "U+00DF" THEN <<"S", "S">>
  ELSE IF ch = "U+FB01" THEN <<"F", "I">>
  ELSE IF ch = "U+00FC" THEN <<"U+00DC">>
  ELSE IF ch = "U+00E9" THEN <<"U+00C9">>
  ELSE <<ch>>

\* s.upper()
upper(s) == join([i \in DOMAIN s |-> upper_char(s[i])])

\* re.sub(r"[^...]", "", s): keep the characters of the class
re_sub_not_in(class, s) == SelectSeq(s, LAMBDA c : c \in class)

\* re.sub(r"[...]", "", s): remove the characters of the class
re_sub_in(class, s) == SelectSeq(s, LAMBDA c : c \notin class)

\* reversed(s)
reversed(s) == [i \in DOMAIN s |-> s[Len(s) + 1 - i]]

\* s.ljust(width, fill)
RECURSIVE ljust(_, _, _)
ljust(s, width, fill) ==
  IF Len(s) >= width THEN s ELSE ljust(Append(s, fill), width, fill)

\* s.rjust(width, fill)
RECURSIVE rjust(_, _, _)
rjust(s, width, fill) ==
  IF Len(s) >= width THEN s ELSE rjust(<<fill>> \o s, width, fill)

\* str(n) of an int n >= 0
RECURSIVE str(_)
str(n) ==
  IF n < 10 THEN <<digits[n + 1]>>
  ELSE Append(str(n \div 10), digits[(n % 10) + 1])

\* s[-k:]
last_chars(s, k) == IF Len(s) <= k THEN s ELSE SubSeq(s, Len(s) - k + 1, Len(s))

\* s[:k]
first_chars(s, k) == IF Len(s) <= k THEN s ELSE SubSeq(s, 1, k)

----------------------------------------------------------------------------
(* Provider                                                                *)

VOWELS == {"A", "E", "I", "O", "U"}

\* Provider._normalize_name
_normalize_name(nm) ==
  LET nfkd_form == normalize_NFKD(nm)
  IN  SelectSeq(nfkd_form, LAMBDA char : combining(char) = 0)

\* _name = _name.replace("Sch", "Y"), applied to every case of the letters:
\* what the statement would do if it ran after the upper-casing
replace_Sch_any_case(_name) ==
  LET Fold(c) == IF c \in Range(ascii_lowercase)
                 THEN ascii_uppercase[IndexOf(ascii_lowercase, c)] ELSE c
      RECURSIVE Scan(_)
      Scan(s) ==
        IF s = <<>> THEN <<>>
        ELSE IF Len(s) >= 3 /\ <<Fold(s[1]), Fold(s[2]), Fold(s[3])>> = <<"S", "C", "H">>
             THEN <<"Y">> \o Scan(SubSeq(s, 4, Len(s)))
             ELSE <<Head(s)>> \o Scan(Tail(s))
  IN  Scan(_name)

\* _name = _name.replace("Sch", "Y")
replace_Sch(_name) == replace(_name, <<"S", "c", "h">>, <<"Y">>)

\* the tuple the prefix loop iterates over
PREFIXES == << <<"d", "e", " ">>, <<"v", "o", "n", " ">>, <<"z", "u", " ">> >>

\* _name = _name.replace(prefix, ""): the statement with its value assigned
replace_prefix_assigned(_name, prefix) == replace(_name, prefix, <<>>)

\* The loop body `_name.replace(prefix, "")`, giving _name after it: the
\* statement evaluates the replacement and drops it (a str is immutable and
\* nothing is assigned), so _name is what it was.
replace_prefix(_name, prefix) ==
  LET dropped == replace(_name, prefix, <<>>)
  IN  _name

\* for prefix in ("de ", "von ", "zu "): _name.replace(prefix, "")
RECURSIVE strip_prefixes(_, _)
strip_prefixes(_name, prefixes) ==
  IF prefixes = <<>> THEN _name
  ELSE strip_prefixes(replace_prefix(_name, Head(prefixes)), Tail(prefixes))

\* _name of _etin_name_quartet once the non-letters are removed
name_letters(nm) ==
  LET n1 == _normalize_name(nm)
      n2 == replace_Sch(n1)
      n3 == strip_prefixes(n2, PREFIXES)
      n4 == upper(n3)
  IN  re_sub_not_in(Range(ascii_uppercase), n4)

\* the vowel loop, taking the vowels in their original order
RECURSIVE append_vowels_forward(_, _)
append_vowels_forward(res, vowels) ==
  IF vowels = <<>> \/ Len(res) >= 4 THEN res
  ELSE append_vowels_forward(Append(res, Head(vowels)), Tail(vowels))

\* for vowel in <iterator>: result += vowel; if len(result) == 4: break
RECURSIVE vowel_loop(_, _)
vowel_loop(res, iterator) ==
  IF iterator = <<>> THEN res
  ELSE LET r == Append(res, Head(iterator))
       IN  IF Len(r) = 4 THEN r ELSE vowel_loop(r, Tail(iterator))

\* if len(result) < 4: for vowel in reversed(vowels): ...
append_vowels(res, vowels) ==
  IF Len(res) < 4 THEN vowel_loop(res, reversed(vowels)) ELSE res

\* result.ljust(4, "X") left out
pad_omitted(res) == res

\* result = result.ljust(4, "X")
pad(res) == ljust(res, 4, "X")

\* Provider._etin_name_quartet
_etin_name_quartet(nm) ==
  LET _name      == name_letters(nm)
      consonants == re_sub_in(VOWELS, _name)
      vowels     == re_sub_not_in(VOWELS, _name)
      res        == first_chars(consonants, 4)
  IN  pad(append_vowels(res, vowels))

\* the dict of _etin_check_weight for the even positions
EVEN_WEIGHTS ==
  ("A" :> 0 @@ "B" :> 1 @@ "C" :> 2 @@ "D" :> 3 @@ "E" :> 4 @@ "F" :> 5 @@
   "G" :> 6 @@ "H" :> 7 @@ "I" :> 8 @@ "J" :> 9 @@ "K" :> 10 @@ "L" :> 11 @@
   "M" :> 12 @@ "N" :> 13 @@ "O" :> 14 @@ "P" :> 15 @@ "Q" :> 16 @@
   "R" :> 17 @@ "S" :> 18 @@ "T" :> 19 @@ "U" :> 20 @@ "V" :> 21 @@
   "W" :> 22 @@ "X" :> 23 @@ "Y" :> 24 @@ "Z" :> 25 @@
   "0" :> 0 @@ "1" :> 1 @@ "2" :> 2 @@ "3" :> 3 @@ "4" :> 4 @@ "5" :> 5 @@
   "6" :> 6 @@ "7" :> 7 @@ "8" :> 8 @@ "9" :> 9)

\* the dict of _etin_check_weight for the odd positions
ODD_WEIGHTS ==
  ("A" :> 1 @@ "B" :> 0 @@ "C" :> 5 @@ "D" :> 7 @@ "E" :> 9 @@ "F" :> 13 @@
   "G" :> 15 @@ "H" :> 17 @@ "I" :> 19 @@ "J" :> 21 @@ "K" :> 2 @@
   "L" :> 4 @@ "M" :> 18 @@ "N" :> 20 @@ "O" :> 11 @@ "P" :> 3 @@ "Q" :> 6 @@
   "R" :> 8 @@ "S" :> 12 @@ "T" :> 14 @@ "U" :> 16 @@ "V" :> 10 @@
   "W" :> 22 @@ "X" :> 23 @@ "Y" :> 24 @@ "Z" :> 25 @@
   "0" :> 1 @@ "1" :> 0 @@ "2" :> 5 @@ "3" :> 7 @@ "4" :> 9 @@ "5" :> 13 @@
   "6" :> 15 @@ "7" :> 17 @@ "8" :> 19 @@ "9" :> 21)

\* the tuple of the two dicts with one entry mistyped: "K" of the odd
\* table 1 instead of 2
WEIGHTS_mistyped == <<EVEN_WEIGHTS, [ODD_WEIGHTS EXCEPT !["K"] = 1]>>

\* the tuple (even dict, odd dict) that _etin_check_weight indexes
WEIGHTS == <<EVEN_WEIGHTS, ODD_WEIGHTS>>

\* _etin_check_weight with the parity test inverted
_etin_check_weight_inverted(position, value) ==
  LET index == IF position % 2 = 0 THEN 1 ELSE 0
  IN  WEIGHTS[index + 1][value]

\* Provider._etin_check_weight (position counts from 0)
_etin_check_weight(position, value) ==
  LET index == IF position % 2 = 0 THEN 0 ELSE 1
  IN  WEIGHTS[index + 1][value]

\* for index, character in enumerate(etin_stub): _sum += weight
RECURSIVE sum_loop(_, _, _)
sum_loop(_sum, index, stub) ==
  IF index >= Len(stub) THEN _sum
  ELSE sum_loop(_sum + _etin_check_weight(index, stub[index + 1]),
                index + 1, stub)

\* Provider._etin_check_character
_etin_check_character(stub) ==
  LET _sum   == sum_loop(0, 0, stub)
      mod_26 == _sum % 26
  IN  ascii_uppercase[mod_26 + 1]

\* a month table that also answers months 0 and 13, wrapping around
MONTH_LETTER_wrapping ==
  [m \in 0..13 |-> ascii_uppercase[((m + 11) % 12) + 1]]

\* Provider.MONTH_LETTER
MONTH_LETTER ==
  (1 :> "A" @@ 2 :> "B" @@ 3 :> "C" @@ 4 :> "D" @@ 5 :> "E" @@ 6 :> "F" @@
   7 :> "G" @@ 8 :> "H" @@ 9 :> "I" @@ 10 :> "J" @@ 11 :> "K" @@ 12 :> "L")

\* the stub with the first-name quartet put before the last-name quartet
etin_stub_of_first_then_last(first, last, date) ==
  upper(_etin_name_quartet(first) \o _etin_name_quartet(last)
        \o last_chars(str(date.year), 2)
        \o <<MONTH_LETTER[date.month]>>
        \o rjust(str(date.day), 2, "0"))

\* _etin of etin: the f-string, upper-cased (evaluated when the month is a
\* key of MONTH_LETTER)
etin_stub_of(first, last, date) ==
  upper(_etin_name_quartet(last) \o _etin_name_quartet(first)
        \o last_chars(str(date.year), 2)
        \o <<MONTH_LETTER[date.month]>>
        \o rjust(str(date.day), 2, "0"))

\* the return statement with the check character taken over the name part
\* of the stub only
etin_return_check_of_names(_etin) ==
  Append(_etin, _etin_check_character(first_chars(_etin, 8)))

\* return f"{_etin}{self._etin_check_character(_etin)}"
etin_return(_etin) == Append(_etin, _etin_check_character(_etin))

\* Provider.etin once its three arguments are not None: the outcome
\* ("returned", or "KeyError" from MONTH_LETTER[birthday.month]) and the
\* value returned
etin(first, last, date) ==
  IF date.month \notin DOMAIN MONTH_LETTER
  THEN [outcome |-> "KeyError", value |-> <<>>]
  ELSE [outcome |-> "returned",
        value   |-> etin_return(etin_stub_of(first, last, date))]

----------------------------------------------------------------------------
(* The calls made                                                          *)

\* bounds of the arguments drawn
MaxParts == 3
MaxSubst == 1

None == <<>>
Some(v) == <<v>>

Date(y, m, d) == [year |-> y, month |-> m, day |-> d]

Mueller   == <<"M", "U+00FC", "l", "l", "e", "r">>
Hans      == <<"H", "a", "n", "s">>
Ed        == <<"E", "d">>
VonBraun  == <<"v", "o", "n", " ", "B", "r", "a", "u", "n">>
Schmidt   == <<"S", "c", "h", "m", "i", "d", "t">>
SCHMIDT   == <<"S", "C", "H", "M", "I", "D", "T">>
schmidt   == <<"s", "c", "h", "m", "i", "d", "t">>

ExampleNames ==
  { Mueller, Hans, Ed, VonBraun, Schmidt, SCHMIDT, schmidt, <<>>,
    <<"H", "a", "n", "s", "-", "D", "i", "e", "t", "e", "r">>,
    <<"A", "e", "i", "o", "u">>,
    <<"S", "t", "r", "a", "U+00DF", "e">>,
    <<"U+015A", "c", "h", "a", "i">>,
    <<"U+FB01", "U+00E9">>,
    <<"U+0416", "U+0416">>,
    <<"d", "e", " ", "l", "a", " ", "C", "r", "u", "z">> }

Fragments ==
  { <<"S", "c", "h">>, <<"S", "C", "H">>, <<"s", "C", "h">>,
    <<"v", "o", "n", " ">>, <<"d", "e", " ">>, <<"z", "u", " ">>,
    <<"a">>, <<"E">>, <<"d">>, <<"-">>, <<"U+00FC">>, <<"U+00DF">> }

\* the names _etin_name_quartet is called with
Names ==
  ExampleNames
    \cup UNION { {join(t) : t \in [1..k -> Fragments]} : k \in 0..MaxParts }

\* the names etin is called with
EtinNames == {Mueller, Hans, Ed, VonBraun, Schmidt, <<>>}

\* the dates etin is called with: year 1..9999 as datetime.date has it; the
\* month also outside 1..12, as an object that is no datetime.date can have
Birthdays ==
  { Date(y, m, d) : y \in {5, 1987, 2000, 9999}, m \in 0..13, d \in {1, 5, 28} }

\* what self.generator.first_name(), last_name(), date_of_birth() return
GeneratedNames == {Hans, Mueller}
GeneratedDates == {Date(1987, 3, 5), Date(2000, 12, 28)}

\* the stubs _etin_check_character is called with
Stubs ==
  { <<"M", "L", "L", "R", "H", "N", "S", "A", "8", "7", "C", "0", "5">>,
    <<"X", "X", "X", "X", "D", "E", "X", "X", "0", "0", "L", "2", "8">> }

StubChars == Range(ascii_uppercase) \cup Range(digits)

NoPrev == [stub |-> <<>>, check |-> <<>>]

Init ==
  /\ pc = "called"
  /\ prev = NoPrev
  /\ subst = 0
  /\ result = <<>>
  /\ recheck = <<>>
  /\ \/ /\ call = "_etin_name_quartet"
        /\ name \in Names
        /\ first_name = None /\ last_name = None /\ birthday = None
        /\ etin_stub = <<>>
     \/ /\ call = "_etin_check_character"
        /\ etin_stub \in Stubs
        /\ name = <<>>
        /\ first_name = None /\ last_name = None /\ birthday = None
     \/ /\ call = "etin"
        /\ first_name \in {None} \cup {Some(n) : n \in EtinNames}
        /\ last_name \in {None} \cup {Some(n) : n \in EtinNames}
        /\ birthday \in {None} \cup {Some(d) : d \in Birthdays}
        /\ name = <<>>
        /\ etin_stub = <<>>

\* a call of _etin_name_quartet(name)
Call_etin_name_quartet ==
  /\ call = "_etin_name_quartet" /\ pc = "called"
  /\ result' = _etin_name_quartet(name)
  /\ pc' = "returned"
  /\ UNCHANGED <<call, name, first_name, last_name, birthday, etin_stub,
                 prev, subst, recheck>>

\* a call of _etin_check_character(etin_stub)
Call_etin_check_character ==
  /\ call = "_etin_check_character" /\ pc = "called"
  /\ result' = <<_etin_check_character(etin_stub)>>
  /\ pc' = "returned"
  /\ UNCHANGED <<call, name, first_name, last_name, birthday, etin_stub,
                 prev, subst, recheck>>

\* a call of etin(first_name, last_name, birthday): an argument that is
\* None is replaced by what the generator returns
Call_etin ==
  /\ call = "etin" /\ pc = "called"
  /\ \E gf \in GeneratedNames, gl \in GeneratedNames, gd \in GeneratedDates :
       LET first == IF first_name = None THEN gf ELSE first_name[1]
           last  == IF last_name = None THEN gl ELSE last_name[1]
           date  == IF birthday = None THEN gd ELSE birthday[1]
           out   == etin(first, last, date)
       IN  /\ first_name' = Some(first)
           /\ last_name' = Some(last)
           /\ birthday' = Some(date)
           /\ pc' = out.outcome
           /\ result' = out.value
  /\ UNCHANGED <<call, name, etin_stub, prev, subst, recheck>>

\* the check character recomputed from a returned eTIN without its last
\* character
RoundTrip ==
  /\ call = "etin" /\ pc = "returned"
  /\ etin_stub' = SubSeq(result, 1, Len(result) - 1)
  /\ recheck' = <<_etin_check_character(etin_stub')>>
  /\ pc' = "rechecked"
  /\ UNCHANGED <<call, name, first_name, last_name, birthday, prev, subst,
                 result>>

\* _etin_check_character called again with one character of the stub
\* replaced by another one
Substitute ==
  /\ call = "_etin_check_character" /\ pc = "returned"
  /\ subst < MaxSubst
  /\ \E i \in DOMAIN etin_stub :
       \E c \in StubChars \ {etin_stub[i]} :
       /\ etin_stub' = [etin_stub EXCEPT ![i] = c]
       /\ result' = <<_etin_check_character(etin_stub')>>
  /\ prev' = [stub |-> etin_stub, check |-> result]
  /\ subst' = subst + 1
  /\ UNCHANGED <<call, pc, name, first_name, last_name, birthday, recheck>>

Next ==
  \/ Call_etin_name_quartet
  \/ Call_etin_check_character
  \/ Call_etin
  \/ RoundTrip
  \/ Substitute

Spec == Init /\ [][Next]_vars

----------------------------------------------------------------------------
(* Properties                                                              *)

Letters == Range(ascii_uppercase)
Digits  == Range(digits)

Returned == pc \in {"returned", "rechecked"}

Min(a, b) == IF a <= b THEN a ELSE b

Consonants(letters) == SelectSeq(letters, LAMBDA c : c \notin VOWELS)
Vowels(letters)     == SelectSeq(letters, LAMBDA c : c \in VOWELS)

\* The quartet of a name whose consonants are C and whose vowels are V, both
\* in the order of the name: the first four consonants, or else all of C,
\* then the last vowels of V, the last one first, then "X" up to length 4.
QuartetOf(C, V) ==
  IF Len(C) >= 4 THEN SubSeq(C, 1, 4)
  ELSE LET k       == Min(4 - Len(C), Len(V))
           taken   == [i \in 1..k |-> V[Len(V) + 1 - i]]
           padding == [i \in 1..(4 - Len(C) - k) |-> "X"]
       IN  C \o taken \o padding

\* C1: for every first name, last name and calendar-valid birth date (year
\* 1..9999, month 1..12, day 1..31), etin returns a string of length exactly
\* 14 matching [A-Z]{8}[0-9]{2}[A-Z][0-9]{2}[A-Z].
C1_EtinShape ==
  (/\ call = "etin" /\ Returned
   /\ birthday[1].year \in 1..9999
   /\ birthday[1].month \in 1..12
   /\ birthday[1].day \in 1..31)
  => /\ Len(result) = 14
     /\ \A i \in 1..8 : result[i] \in Letters
     /\ \A i \in {9, 10, 12, 13} : result[i] \in Digits
     /\ \A i \in {11, 14} : result[i] \in Letters

\* C2: for every name, _etin_name_quartet returns a string of length exactly
\* 4 whose every character is a letter A-Z, and it never raises.
C2_QuartetShape ==
  (call = "_etin_name_quartet" /\ pc # "called")
  => /\ pc = "returned"
     /\ Len(result) = 4
     /\ \A i \in DOMAIN result : result[i] \in Letters

\* a name without any Latin letter has been encoded
C2_Witness ==
  /\ call = "_etin_name_quartet" /\ pc = "returned"
  /\ name = <<"U+0416", "U+0416">>
  /\ result = <<"X", "X", "X", "X">>

\* C3: removing the final character of a returned eTIN and applying
\* _etin_check_character to the rest gives the removed character.
C3_RoundTrip ==
  (call = "etin" /\ pc = "rechecked")
  => recheck = <<result[Len(result)]>>

\* the check character of a 14-character eTIN has been recomputed
C3_Witness ==
  /\ call = "etin" /\ pc = "rechecked"
  /\ Len(result) = 14 /\ Len(etin_stub) = 13
  /\ first_name = Some(VonBraun)

\* the sum of F over the positions (counted from 0) in P
RECURSIVE SumOver(_, _, _)
SumOver(P, table, stub) ==
  IF P = {} THEN 0
  ELSE LET i == CHOOSE j \in P : TRUE
       IN  table[stub[i + 1]] + SumOver(P \ {i}, table, stub)

EvenPositions(stub) == {i \in 0..(Len(stub) - 1) : i % 2 = 0}
OddPositions(stub)  == {i \in 0..(Len(stub) - 1) : i % 2 = 1}

WeightedSum(stub) ==
  SumOver(EvenPositions(stub), EVEN_WEIGHTS, stub)
    + SumOver(OddPositions(stub), ODD_WEIGHTS, stub)

\* C4: for every 13-character stub over A-Z and 0-9, _etin_check_character
\* returns the single letter at index (sum of the weights) mod 26 of the
\* alphabet, the weight of position i being taken from the even table when i
\* is even and from the odd table when i is odd; every weight of both tables
\* lies in 0..25.
C4_CheckCharacter ==
  (call = "_etin_check_character" /\ pc = "returned")
  => /\ Len(etin_stub) = 13
     /\ \A i \in DOMAIN etin_stub : etin_stub[i] \in StubChars
     /\ Len(result) = 1
     /\ result[1] \in Letters
     /\ result[1] = ascii_uppercase[(WeightedSum(etin_stub) % 26) + 1]
     /\ \A t \in 1..2 :
          /\ DOMAIN WEIGHTS[t] = StubChars
          /\ \A c \in StubChars : WEIGHTS[t][c] \in 0..25

\* the check character of a stub with letters and digits at even and at odd
\* positions has been computed
C4_Witness ==
  /\ call = "_etin_check_character" /\ pc = "returned"
  /\ subst = 0
  /\ etin_stub = <<"X", "X", "X", "X", "D", "E", "X", "X", "0", "0", "L", "2", "8">>
  /\ Len(result) = 1

\* C5: with last name "Mueller" (u with diaeresis), first name "Hans" and
\* birth date 1987-03-05 the last-name quartet is MLLR, the first-name
\* quartet is HNSA, the stub is MLLRHNSA87C05, its weights sum to 114 and
\* etin returns MLLRHNSA87C05K.
C5_WorkedExample ==
  (/\ call = "etin" /\ pc # "called"
   /\ first_name = Some(Hans) /\ last_name = Some(Mueller)
   /\ birthday = Some(Date(1987, 3, 5)))
  => /\ Returned
     /\ _etin_name_quartet(Mueller) = <<"M", "L", "L", "R">>
     /\ _etin_name_quartet(Hans) = <<"H", "N", "S", "A">>
     /\ etin_stub_of(Hans, Mueller, Date(1987, 3, 5))
          = <<"M", "L", "L", "R", "H", "N", "S", "A", "8", "7", "C", "0", "5">>
     /\ sum_loop(0, 0, SubSeq(result, 1, 13)) = 114
     /\ result = <<"M", "L", "L", "R", "H", "N", "S", "A", "8", "7", "C", "0",
                   "5", "K">>

\* etin has returned for Hans Mueller, born 1987-03-05
C5_Witness ==
  /\ call = "etin" /\ pc = "returned"
  /\ first_name = Some(Hans) /\ last_name = Some(Mueller)
  /\ birthday = Some(Date(1987, 3, 5))
  /\ Len(result) = 14

\* C6: when the month of the birth date is outside 1..12 the call of etin
\* ends in an error and returns no string; for every month in 1..12 the call
\* does not fail and the month letter is the month-th letter of A..L.
C6_Month ==
  (call = "etin" /\ pc # "called")
  => /\ birthday[1].month \notin 1..12 => (pc = "KeyError" /\ result = <<>>)
     /\ birthday[1].month \in 1..12 =>
          /\ Returned
          /\ result[Len(result) - 3]
               = <<"A", "B", "C", "D", "E", "F", "G", "H", "I", "J", "K",
                   "L">>[birthday[1].month]

\* etin has been called with month 13 and has raised
C6_Witness ==
  /\ call = "etin" /\ pc = "KeyError"
  /\ birthday[1].month = 13

\* C7: with C the consonants and V the vowels of the name after filtering
\* to A-Z, the quartet is the first 4 consonants if there are 4, and else C,
\* then the last min(4-|C|, |V|) vowels in reverse order, then "X" padding;
\* "Ed" gives DEXX and a name without letters XXXX.
C7_QuartetSelection ==
  (call = "_etin_name_quartet" /\ pc = "returned")
  => LET letters == name_letters(name)
         C == Consonants(letters)
         V == Vowels(letters)
     IN  /\ result = QuartetOf(C, V)
         /\ Len(C) >= 4 => result = SubSeq(C, 1, 4)
         /\ name = Ed => result = <<"D", "E", "X", "X">>
         /\ letters = <<>> => result = <<"X", "X", "X", "X">>

\* a name with fewer than 4 consonants and more vowels than are needed has
\* been encoded
C7_Witness ==
  /\ call = "_etin_name_quartet" /\ pc = "returned"
  /\ name = <<"A", "e", "i", "o", "u">>
  /\ result = <<"U", "O", "I", "E">>

\* _etin_name_quartet with the prefix loop left out
QuartetWithoutPrefixStep(nm) ==
  LET _name == re_sub_not_in(Range(ascii_uppercase),
                             upper(replace_Sch(_normalize_name(nm))))
  IN  pad(append_vowels(first_chars(re_sub_in(VOWELS, _name), 4),
                        re_sub_not_in(VOWELS, _name)))

RECURSIVE SchScan(_)
SchScan(s) ==
  IF s = <<>> THEN <<>>
  ELSE IF Len(s) >= 3 /\ s[1] = "S" /\ s[2] = "c" /\ s[3] = "h"
       THEN <<"Y">> \o SchScan(SubSeq(s, 4, Len(s)))
       ELSE SelectSeq(upper_char(s[1]), LAMBDA c : c \in Letters)
              \o SchScan(Tail(s))

\* C9: "Sch" in exactly that case, at every occurrence, contributes the one
\* consonant Y in place of S, C, H; "SCH", "sch" and "sCh" contribute S, C
\* and H. "Schmidt" gives YMDT, "SCHMIDT" and "schmidt" give SCHM.
C9_SchSubstitution ==
  (call = "_etin_name_quartet" /\ pc = "returned")
  => LET letters == SchScan(_normalize_name(name))
     IN  /\ result = QuartetOf(Consonants(letters), Vowels(letters))
         /\ name = Schmidt => result = <<"Y", "M", "D", "T">>
         /\ name \in {SCHMIDT, schmidt} => result = <<"S", "C", "H", "M">>

\* a name with two occurrences of "Sch" and one of "SCH" has been encoded
C9_Witness ==
  /\ call = "_etin_name_quartet" /\ pc = "returned"
  /\ name = <<"S", "c", "h", "S", "C", "H", "S", "c", "h">>
  /\ result = <<"Y", "S", "C", "H">>

SameClass(a, b) == (a \in Letters /\ b \in Letters) \/ (a \in Digits /\ b \in Digits)

\* f takes pairwise distinct values on S
Injective(f, S) == Cardinality({f[a] : a \in S}) = Cardinality(S)

\* C10: in each weight table the 26 letters have pairwise distinct weights
\* and the 10 digits have pairwise distinct weights, and replacing one
\* character of a stub by a different character of the same class changes
\* the value of _etin_check_character.
C10_SingleSubstitution ==
  /\ \A t \in 1..2 : Injective(WEIGHTS[t], Letters) /\ Injective(WEIGHTS[t], Digits)
  /\ (call = "_etin_check_character" /\ subst >= 1)
     => LET differ == {i \in DOMAIN etin_stub : etin_stub[i] # prev.stub[i]}
        IN  /\ Cardinality(differ) = 1
            /\ \A i \in differ :
                 SameClass(etin_stub[i], prev.stub[i]) => result # prev.check

\* the letter at an odd position of a stub has been replaced by another
\* letter
C10_Witness ==
  /\ call = "_etin_check_character" /\ subst >= 1
  /\ prev.stub[8] = "A" /\ etin_stub[8] = "K"

============================================================================
